---- MODULE Spec2Model ----
(***************************************************************************)
(* Model of store/tikv/rawkv.go (RawKVClient: Get, Put, Delete, Scan,      *)
(* DeleteRange, sendReq, sendDeleteRangeReq) and store/tikv/delete_range.go*)
(* (DeleteRangeTask).  One client call runs at a time; the region cache,   *)
(* the backoffer and the region request sender are the environment.        *)
(***************************************************************************)
EXTENDS Integers, Sequences, FiniteSets, TLC

----------------------------------------------------------------------------
(* Bounds of the model.                                                     *)

\* A Backoffer returns its terminal error on the MaxBackoff-th Backoff call.
MaxBackoff == 2
\* The largest number of region boundaries a layout of the keyspace has.
MaxSplits == 2
\* The largest small scan limit tried (besides the values around the maximum).
MaxLimit == 2

\* MaxRawKVScanLimit is the maximum scan limit for rawkv Scan.
MaxRawKVScanLimit == 10240

----------------------------------------------------------------------------
(* Keys are byte strings; the empty key is the least key and, as a region  *)
(* end, denotes the unbounded upper end.                                    *)

Bytes == {1, 2}
Keys == {<<>>} \cup {<<b>> : b \in Bytes} \cup {<<1, b>> : b \in Bytes}
NonEmptyKeys == Keys \ {<<>>}

\* bytes.Compare: raw byte-lexicographic order, a proper prefix is smaller.
RECURSIVE Compare(_, _)
Compare(a, b) ==
    IF a = <<>> THEN (IF b = <<>> THEN 0 ELSE -1)
    ELSE IF b = <<>> THEN 1
    ELSE IF a[1] < b[1] THEN -1
    ELSE IF a[1] > b[1] THEN 1
    ELSE Compare(Tail(a), Tail(b))

\* bytes.Equal
Equal(a, b) == Compare(a, b) = 0

MinKey(S) == CHOOSE x \in S : \A y \in S : Compare(x, y) <= 0
MaxKey(S) == CHOOSE x \in S : \A y \in S : Compare(y, x) <= 0

\* The keys of a set as a sequence in increasing order.
RECURSIVE SortKeys(_)
SortKeys(S) ==
    IF S = {} THEN <<>>
    ELSE LET m == MinKey(S) IN <<m>> \o SortKeys(S \ {m})

----------------------------------------------------------------------------
(* The region layout: a set of boundaries tiling the keyspace.  The first  *)
(* region starts at the empty key, the last ends at the empty key.          *)

Layouts == {S \in SUBSET NonEmptyKeys : Cardinality(S) <= MaxSplits}

\* RegionCache.LocateKey: the region [StartKey, EndKey) that contains key.
LocateKey(S, key) ==
    LET below == {s \in S : Compare(s, key) <= 0}
        above == {s \in S : Compare(key, s) < 0}
    IN  [StartKey |-> IF below = {} THEN <<>> ELSE MaxKey(below),
         EndKey   |-> IF above = {} THEN <<>> ELSE MinKey(above)]

\* KeyLocation.Contains: StartKey <= key < EndKey, an empty EndKey unbounded.
Contains(l, key) ==
    /\ Compare(l.StartKey, key) <= 0
    /\ (Compare(key, l.EndKey) < 0 \/ Len(l.EndKey) = 0)

NoLoc == [StartKey |-> <<>>, EndKey |-> <<>>]

----------------------------------------------------------------------------
(* Go values: byte slices (nil or not), errors, requests and responses.     *)

\* A []byte value: nil, or a slice with content b (possibly of length 0).
NilBytes == [nil |-> TRUE, b |-> <<>>]
Slice(x) == [nil |-> FALSE, b |-> x]
Values == {NilBytes, Slice(<<>>), Slice(<<1>>)}

\* Errors are identified by their message; ErrNil is the nil error.
ErrNil == "nil"
ErrMaxScanLimitExceeded == "limit should be less than MaxRawKVScanLimit"
ErrEmptyValue == "empty value is not supported"
ErrBodyMissing == "response body is missing"
ErrLocate == "locate key failed"
ErrSend == "send request failed"
ErrInvalidType == "invalid response type"
ErrBackoff == "backoffer.maxSleep is exceeded"
\* The application-level error strings a response payload may carry.
AppErrors == {"e1", "e2"}

NoReq == [Type |-> "none", Key |-> <<>>, Value |-> NilBytes,
          StartKey |-> <<>>, EndKey |-> <<>>, Limit |-> 0]

\* A response: typeOK (GetRegionError knows the type), regionErr (it carries
\* a region error), body (the sub-message of the request's type is present),
\* error (the payload's error string), value and kvs (the payload).
OkResp == [typeOK |-> TRUE, regionErr |-> FALSE, body |-> TRUE, error |-> "",
           value |-> NilBytes, kvs |-> <<>>]
NoResp == [OkResp EXCEPT !.body = FALSE, !.typeOK = FALSE]

\* The key/value pair stored under key k.
Pair(k) == [Key |-> k, Value |-> Slice(k)]

\* What a region answers to a raw scan: at most Limit of its own pairs, in
\* key order, none below the request's StartKey.
ScanPayloads(r, l) ==
    LET own == {k \in Keys : Compare(r.StartKey, k) <= 0 /\ Contains(l, k)}
        picks == {T \in SUBSET own : Cardinality(T) <= r.Limit}
    IN  {[i \in 1..Cardinality(T) |-> Pair(SortKeys(T)[i])] : T \in picks}

\* Every response the region request sender can hand back for request r
\* sent to the region located as l.
Responses(r, l) ==
    {[OkResp EXCEPT !.typeOK = FALSE],
     [OkResp EXCEPT !.regionErr = TRUE],
     [OkResp EXCEPT !.body = FALSE]}
    \cup (IF r.Type = "RawScan"
          THEN {[OkResp EXCEPT !.kvs = p] : p \in ScanPayloads(r, l)}
          ELSE {[OkResp EXCEPT !.error = e] : e \in AppErrors}
               \cup {[OkResp EXCEPT !.regionErr = TRUE, !.error = "e1"]})
    \cup (IF r.Type = "RawGet"
          THEN {[OkResp EXCEPT !.value = v] : v \in Values}
          ELSE IF r.Type = "RawScan" THEN {} ELSE {OkResp})

\* Backoffer.Backoff: whether the call that makes b + 1 backoffs of this
\* Backoffer returns the terminal error.
BackoffExceeded(b) == b + 1 >= MaxBackoff

----------------------------------------------------------------------------
(* The decisions of the code, as operators.                                 *)

\* LimitExceeded with the comparison off by one.
LimitExceeded_AtMax(limit) == limit >= MaxRawKVScanLimit

\* Scan's validation of limit.
LimitExceeded(limit) == limit > MaxRawKVScanLimit

\* Put's validation of value.
EmptyValue(value) == Len(value.b) = 0

\* NewBackoffer replaced by the reuse of the previous sub-request's Backoffer.
NewBackoffer_Reused(b) == b

\* NewBackoffer at the entry of sendReq and of sendDeleteRangeReq: a fresh
\* budget, whatever the previous sub-request (budget b) consumed.
NewBackoffer(b) == 0

\* RetryPc with the retry resending to the region located before.
RetryPc_Resend == "send"

\* Where sendReq and sendDeleteRangeReq continue after a region error that
\* the Backoffer accepted: the top of the loop, which calls LocateKey.
RetryPc == "locate"

\* ActualEndKey without the test for an unbounded region end.
ActualEndKey_NoLenTest(endKey, locEndKey) ==
    IF Compare(locEndKey, endKey) < 0 THEN locEndKey ELSE endKey

\* sendDeleteRangeReq's actualEndKey: endKey, unless the located region ends
\* (at a non-empty key) before it.
ActualEndKey(endKey, locEndKey) ==
    IF Len(locEndKey) > 0 /\ Compare(locEndKey, endKey) < 0
    THEN locEndKey
    ELSE endKey

\* DeleteRangeTask.Execute's endKey of a sub-range.
TaskEndKey(l, rangeEndKey) ==
    IF Contains(l, rangeEndKey) THEN rangeEndKey ELSE l.EndKey

\* GetResult handing back the payload's value as it came.
GetResult_RawValue(resp) ==
    IF ~resp.body THEN [value |-> NilBytes, err |-> ErrBodyMissing]
    ELSE IF resp.error # "" THEN [value |-> NilBytes, err |-> resp.error]
    ELSE [value |-> resp.value, err |-> ErrNil]

\* Get's interpretation of the response sendReq returned.
GetResult(resp) ==
    IF ~resp.body THEN [value |-> NilBytes, err |-> ErrBodyMissing]
    ELSE IF resp.error # "" THEN [value |-> NilBytes, err |-> resp.error]
    ELSE IF Len(resp.value.b) = 0 THEN [value |-> NilBytes, err |-> ErrNil]
    ELSE [value |-> resp.value, err |-> ErrNil]

\* CmdErr without the test of the payload's error string.
CmdErr_NoErrorTest(resp) == IF ~resp.body THEN ErrBodyMissing ELSE ErrNil

\* Put's, Delete's and DeleteRange's interpretation of a response.
CmdErr(resp) ==
    IF ~resp.body THEN ErrBodyMissing
    ELSE IF resp.error # "" THEN resp.error
    ELSE ErrNil

\* ScanErrKeys returning what was accumulated.
ScanErrKeys_Partial(acc) == acc

\* The keys and values Scan returns beside a non-nil error.
ScanErrKeys(acc) == <<>>

\* Scan's accumulation of the pairs of a response.
AppendKeys(acc, kvs) == acc \o [i \in 1..Len(kvs) |-> kvs[i].Key]
AppendValues(acc, kvs) == acc \o [i \in 1..Len(kvs) |-> kvs[i].Value]

\* DeleteRangeTask.Execute's error for a payload error string.
TaskErr(e) == "unexpected delete range err: " \o e

TaskLoopTop_SkipCheck == "locate"

\* Where an iteration of Execute's loop begins, be it the first, the one
\* after `continue` or the one after the cursor moved: at the select on
\* ctx.Done().
TaskLoopTop == "check"

TaskBackoffer_Fresh(b) == 0

\* The Backoff calls already made on the Backoffer the next iteration of
\* Execute uses, b having been made on the one this iteration used: every
\* iteration uses t.bo, the Backoffer the task was constructed with.
TaskBackoffer(b) == b

TaskRetryStart_Advance(start, l) == l.EndKey

\* The cursor of the iteration that follows a region error answered for the
\* sub-request from start to region l: `continue` skips startKey = endKey.
TaskRetryStart(start, l) == start

TaskPayloadErr_NoBodyTest(resp) ==
    IF resp.error # "" THEN TaskErr(resp.error) ELSE ErrNil

\* Execute's test of a response without region error: the DeleteRange body
\* must be present and its error string empty.
TaskPayloadErr(resp) ==
    IF ~resp.body THEN ErrBodyMissing
    ELSE IF resp.error # "" THEN TaskErr(resp.error)
    ELSE ErrNil

----------------------------------------------------------------------------
(* State.                                                                   *)

VARIABLES
    splits,    \* the region boundaries the region cache resolves keys with
    op,        \* the client call in progress
    pc,        \* where the call is
    args,      \* the call's arguments
    key,       \* sendReq's key
    req,       \* the request built for the current sub-request
    loc,       \* the KeyLocation of the current attempt
    bo,        \* Backoff calls made on the current Backoffer
    startKey,  \* the cursor of Scan, DeleteRange and Execute
    keys,      \* Scan's accumulated keys
    values,    \* Scan's accumulated values
    ret,       \* what the call returned
    task,      \* the caller's DeleteRangeTask
    t,         \* Execute's receiver, a copy of the caller's task
    ctxDone,   \* the task's context is canceled
    \* history, read by the properties only
    changed,   \* the layout changed while the call ran
    served,    \* the sub-requests answered without region error
    attempts,  \* LocateKey calls of the current sub-request
    nLocate,   \* LocateKey calls of the call
    nSend,     \* SendReq calls of the call
    nBackoff,  \* Backoff calls of the call
    lastResp,  \* the last response received
    calls,     \* the calls two goroutines make on the client concurrently
    alone,     \* each of these calls as it runs alone on the same inputs
    boHeap     \* the Backoffers of the concurrent calls: Backoff calls made

call == <<op, args, ret>>
frame == <<key, req, loc, bo, startKey, keys, values>>
tsk == <<task, t, ctxDone>>
env == <<splits, changed>>
hist == <<served, attempts, nLocate, nSend, nBackoff, lastResp>>
conc == <<calls, alone, boHeap>>
vars == <<pc, call, frame, tsk, env, hist, conc>>

NoArgs == [key |-> <<>>, value |-> NilBytes, startKey |-> <<>>,
           endKey |-> <<>>, limit |-> 0]
NoRet == [returned |-> FALSE, err |-> ErrNil, value |-> NilBytes,
          keys |-> <<>>, values |-> <<>>]
NoTask == [regions |-> 0, canceled |-> FALSE, startKey |-> <<>>, endKey |-> <<>>]

Limits == (0..MaxLimit) \cup {MaxRawKVScanLimit, MaxRawKVScanLimit + 1}

\* The goroutines that call the client concurrently.
Slots == {1, 2}

\* The addresses of the Backoffers of these calls: a call holds at most one.
BoIds == Slots

\* The locals of one call: its operation, arguments and place, sendReq's
\* key, request, location and Backoffer (an address), Scan's cursor and
\* accumulators, and what it returned.
NoFrame ==
    [op |-> "none", args |-> NoArgs, pc |-> "idle", key |-> <<>>,
     req |-> NoReq, loc |-> NoLoc, bo |-> 0, startKey |-> <<>>,
     keys |-> <<>>, values |-> <<>>, ret |-> NoRet]

\* The Backoffers by address: the Backoff calls made on each.
NoHeap == [id \in BoIds |-> 0]

\* No concurrent call has been made.
ConcIdle ==
    /\ calls = [i \in Slots |-> NoFrame]
    /\ alone = [i \in Slots |-> [f |-> NoFrame, h |-> NoHeap]]
    /\ boHeap = NoHeap

Init ==
    /\ splits \in Layouts
    /\ ConcIdle
    /\ op = "none" /\ pc = "idle" /\ args = NoArgs /\ ret = NoRet
    /\ key = <<>> /\ req = NoReq /\ loc = NoLoc /\ bo = 0
    /\ startKey = <<>> /\ keys = <<>> /\ values = <<>>
    /\ task = NoTask /\ t = NoTask /\ ctxDone = FALSE
    /\ changed = FALSE /\ served = <<>> /\ attempts = 0
    /\ nLocate = 0 /\ nSend = 0 /\ nBackoff = 0 /\ lastResp = NoResp

\* The call returns (value, keys, values, err).
Return(e, v, ks, vs) ==
    /\ pc' = "done"
    /\ ret' = [returned |-> TRUE, err |-> e, value |-> v, keys |-> ks, values |-> vs]

\* The call enters sendReq(k, r) or sendDeleteRangeReq.
EnterSend(k, r) ==
    /\ key' = k /\ req' = r /\ loc' = NoLoc
    /\ bo' = NewBackoffer(bo)
    /\ attempts' = 0
    /\ pc' = "locate"

----------------------------------------------------------------------------
(* Get, Put, Delete and Scan: the entry of the call.                        *)

\* Get(key): build the request and call sendReq.
CallGet(k) ==
    /\ pc = "idle"
    /\ op' = "Get" /\ args' = [NoArgs EXCEPT !.key = k]
    /\ EnterSend(k, [NoReq EXCEPT !.Type = "RawGet", !.Key = k])
    /\ UNCHANGED <<ret, startKey, keys, values, tsk, env>>
    /\ UNCHANGED <<served, nLocate, nSend, nBackoff, lastResp>>
    /\ UNCHANGED conc

\* Put(key, value): reject an empty value, else call sendReq.
CallPut(k, v) ==
    /\ pc = "idle"
    /\ op' = "Put" /\ args' = [NoArgs EXCEPT !.key = k, !.value = v]
    /\ IF EmptyValue(v)
       THEN /\ Return(ErrEmptyValue, NilBytes, <<>>, <<>>)
            /\ UNCHANGED <<key, req, loc, bo, attempts>>
       ELSE /\ EnterSend(k, [NoReq EXCEPT !.Type = "RawPut", !.Key = k, !.Value = v])
            /\ UNCHANGED ret
    /\ UNCHANGED <<startKey, keys, values, tsk, env>>
    /\ UNCHANGED <<served, nLocate, nSend, nBackoff, lastResp>>
    /\ UNCHANGED conc

\* Delete(key): build the request and call sendReq.
CallDelete(k) ==
    /\ pc = "idle"
    /\ op' = "Delete" /\ args' = [NoArgs EXCEPT !.key = k]
    /\ EnterSend(k, [NoReq EXCEPT !.Type = "RawDelete", !.Key = k])
    /\ UNCHANGED <<ret, startKey, keys, values, tsk, env>>
    /\ UNCHANGED <<served, nLocate, nSend, nBackoff, lastResp>>
    /\ UNCHANGED conc

\* ScanReq asking for the whole limit again.
ScanReq_WholeLimit(start, limit, acc) ==
    [NoReq EXCEPT !.Type = "RawScan", !.StartKey = start, !.Limit = limit]

\* The request of one iteration of Scan's loop.
ScanReq(start, limit, acc) ==
    [NoReq EXCEPT !.Type = "RawScan", !.StartKey = start, !.Limit = limit - Len(acc)]

\* The head of Scan's loop with cursor start and accumulator (ks, vs).
ScanLoop(start, limit, ks, vs) ==
    IF Len(ks) < limit
    THEN EnterSend(start, ScanReq(start, limit, ks)) /\ UNCHANGED ret
    ELSE Return(ErrNil, NilBytes, ks, vs) /\ UNCHANGED <<key, req, loc, bo, attempts>>

\* Scan(startKey, limit): reject a limit above the maximum, else start the loop.
CallScan(k, n) ==
    /\ pc = "idle"
    /\ op' = "Scan" /\ args' = [NoArgs EXCEPT !.startKey = k, !.limit = n]
    /\ IF LimitExceeded(n)
       THEN /\ Return(ErrMaxScanLimitExceeded, NilBytes, <<>>, <<>>)
            /\ UNCHANGED <<key, req, loc, bo, attempts>>
       ELSE ScanLoop(k, n, <<>>, <<>>)
    /\ startKey' = k
    /\ UNCHANGED <<keys, values, tsk, env>>
    /\ UNCHANGED <<served, nLocate, nSend, nBackoff, lastResp>>
    /\ UNCHANGED conc

----------------------------------------------------------------------------
(* sendReq, with the rest of its caller once it returns.                    *)

SendReqOps == {"Get", "Put", "Delete", "Scan"}

\* What Get, Put, Delete and Scan return when sendReq returns error e.
ReturnErr(e) == Return(e, NilBytes, ScanErrKeys(keys), ScanErrKeys(values))

\* regionCache.LocateKey(bo, key)
SendReqLocate ==
    /\ pc = "locate" /\ op \in SendReqOps
    /\ nLocate' = nLocate + 1 /\ attempts' = attempts + 1
    /\ \/ loc' = LocateKey(splits, key) /\ pc' = "send" /\ UNCHANGED ret
       \/ ReturnErr(ErrLocate) /\ UNCHANGED loc
    /\ UNCHANGED <<op, args, key, req, bo, startKey, keys, values, tsk, env>>
    /\ UNCHANGED <<served, nSend, nBackoff, lastResp>>
    /\ UNCHANGED conc

\* sender.SendReq(bo, req, loc.Region, readTimeoutShort): the request leaves.
SendReqSend ==
    /\ pc = "send" /\ op \in SendReqOps
    /\ nSend' = nSend + 1
    /\ \/ pc' = "wait" /\ UNCHANGED ret
       \/ ReturnErr(ErrSend)
    /\ UNCHANGED <<op, args, frame, tsk, env>>
    /\ UNCHANGED <<served, attempts, nLocate, nBackoff, lastResp>>
    /\ UNCHANGED conc

ScanNextStart_Stay(start, l) == start

\* Scan's cursor after the sub-request from start was served by the region
\* located as l: startKey = loc.EndKey.
ScanNextStart(start, l) == l.EndKey

\* Scan after sendReq returned (resp, loc, nil).
ScanCont(resp) ==
    IF ~resp.body
    THEN /\ ReturnErr(ErrBodyMissing)
         /\ UNCHANGED <<key, req, loc, bo, startKey, keys, values, served, attempts>>
    ELSE LET ks == AppendKeys(keys, resp.kvs)
             vs == AppendValues(values, resp.kvs)
         IN  /\ keys' = ks /\ values' = vs
             /\ startKey' = ScanNextStart(startKey, loc)
             /\ UNCHANGED served
             /\ IF Len(ScanNextStart(startKey, loc)) = 0
                THEN /\ Return(ErrNil, NilBytes, ks, vs)
                     /\ UNCHANGED <<key, req, loc, bo, attempts>>
                ELSE ScanLoop(ScanNextStart(startKey, loc), args.limit, ks, vs)

\* Get, Put and Delete after sendReq returned (resp, loc, nil).
PointCont(resp) ==
    /\ IF op = "Get"
       THEN Return(GetResult(resp).err, GetResult(resp).value, <<>>, <<>>)
       ELSE Return(CmdErr(resp), NilBytes, <<>>, <<>>)
    /\ UNCHANGED <<key, req, loc, bo, startKey, keys, values, served, attempts>>

\* The response arrives: GetRegionError, Backoff on a region error, or the
\* return to the caller.
SendReqRecv ==
    /\ pc = "wait" /\ op \in SendReqOps
    /\ \E resp \in Responses(req, loc) :
        /\ lastResp' = resp
        /\ IF ~resp.typeOK
           THEN /\ ReturnErr(ErrInvalidType)
                /\ UNCHANGED <<frame, served, attempts, nBackoff>>
           ELSE IF resp.regionErr
           THEN /\ bo' = bo + 1 /\ nBackoff' = nBackoff + 1
                /\ IF BackoffExceeded(bo)
                   THEN ReturnErr(ErrBackoff)
                   ELSE pc' = RetryPc /\ UNCHANGED ret
                /\ UNCHANGED <<key, req, loc, startKey, keys, values, served, attempts>>
           ELSE /\ UNCHANGED nBackoff
                /\ IF op = "Scan" THEN ScanCont(resp) ELSE PointCont(resp)
    /\ UNCHANGED <<op, args, tsk, env, nLocate, nSend>>
    /\ UNCHANGED conc

----------------------------------------------------------------------------
(* DeleteRange and sendDeleteRangeReq.                                      *)

\* NextStartKey moving to the end of the region instead.
NextStartKey_RegionEnd(actualEndKey, l) == l.EndKey

\* DeleteRange's cursor after a sub-request that deleted up to actualEndKey
\* in the region located as l.
NextStartKey(actualEndKey, l) == actualEndKey

\* DeleteRangeLoop going on only while the cursor is below endKey.
DeleteRangeLoop_WhileLess(start, endKey) ==
    IF Compare(start, endKey) < 0
    THEN EnterSend(start, NoReq) /\ UNCHANGED ret
    ELSE Return(ErrNil, NilBytes, <<>>, <<>>) /\ UNCHANGED <<key, req, loc, bo, attempts>>

\* The head of DeleteRange's loop with cursor start.
DeleteRangeLoop(start, endKey) ==
    IF ~Equal(start, endKey)
    THEN EnterSend(start, NoReq) /\ UNCHANGED ret
    ELSE Return(ErrNil, NilBytes, <<>>, <<>>) /\ UNCHANGED <<key, req, loc, bo, attempts>>

\* DeleteRange(startKey, endKey)
CallDeleteRange(s, e) ==
    /\ pc = "idle"
    /\ op' = "DeleteRange" /\ args' = [NoArgs EXCEPT !.startKey = s, !.endKey = e]
    /\ startKey' = s
    /\ DeleteRangeLoop(s, e)
    /\ UNCHANGED <<keys, values, tsk, env>>
    /\ UNCHANGED <<served, nLocate, nSend, nBackoff, lastResp>>
    /\ UNCHANGED conc

\* regionCache.LocateKey(bo, startKey), then the request up to actualEndKey.
DeleteRangeLocate ==
    /\ pc = "locate" /\ op = "DeleteRange"
    /\ nLocate' = nLocate + 1 /\ attempts' = attempts + 1
    /\ \/ LET l == LocateKey(splits, key)
          IN  /\ loc' = l
              /\ req' = [NoReq EXCEPT !.Type = "RawDeleteRange", !.StartKey = key,
                                      !.EndKey = ActualEndKey(args.endKey, l.EndKey)]
              /\ pc' = "send" /\ UNCHANGED ret
       \/ Return(ErrLocate, NilBytes, <<>>, <<>>) /\ UNCHANGED <<loc, req>>
    /\ UNCHANGED <<op, args, key, bo, startKey, keys, values, tsk, env>>
    /\ UNCHANGED <<served, nSend, nBackoff, lastResp>>
    /\ UNCHANGED conc

\* sender.SendReq(bo, req, loc.Region, readTimeoutShort): the request leaves.
DeleteRangeSend ==
    /\ pc = "send" /\ op = "DeleteRange"
    /\ nSend' = nSend + 1
    /\ \/ pc' = "wait" /\ UNCHANGED ret
       \/ Return(ErrSend, NilBytes, <<>>, <<>>)
    /\ UNCHANGED <<op, args, frame, tsk, env>>
    /\ UNCHANGED <<served, attempts, nLocate, nBackoff, lastResp>>
    /\ UNCHANGED conc

\* The response arrives: a region error is backed off and retried; else
\* sendDeleteRangeReq returns (resp, actualEndKey, nil) and DeleteRange
\* checks the payload and moves the cursor.
DeleteRangeRecv ==
    /\ pc = "wait" /\ op = "DeleteRange"
    /\ \E resp \in Responses(req, loc) :
        /\ lastResp' = resp
        /\ IF ~resp.typeOK
           THEN /\ Return(ErrInvalidType, NilBytes, <<>>, <<>>)
                /\ UNCHANGED <<frame, served, attempts, nBackoff>>
           ELSE IF resp.regionErr
           THEN /\ bo' = bo + 1 /\ nBackoff' = nBackoff + 1
                /\ IF BackoffExceeded(bo)
                   THEN Return(ErrBackoff, NilBytes, <<>>, <<>>)
                   ELSE pc' = RetryPc /\ UNCHANGED ret
                /\ UNCHANGED <<key, req, loc, startKey, keys, values, served, attempts>>
           ELSE IF CmdErr(resp) # ErrNil
           THEN /\ Return(CmdErr(resp), NilBytes, <<>>, <<>>)
                /\ UNCHANGED <<frame, served, attempts, nBackoff>>
           ELSE LET next == NextStartKey(req.EndKey, loc)
                IN  /\ served' = Append(served, [StartKey |-> req.StartKey,
                                                 EndKey |-> req.EndKey])
                    /\ startKey' = next
                    /\ DeleteRangeLoop(next, args.endKey)
                    /\ UNCHANGED <<keys, values, nBackoff>>
    /\ UNCHANGED <<op, args, tsk, env, nLocate, nSend>>
    /\ UNCHANGED conc

----------------------------------------------------------------------------
(* DeleteRangeTask.                                                         *)

\* NewDeleteRangeTask(ctx, store, bo, startKey, endKey), with a new Backoffer.
NewDeleteRangeTask(s, e) ==
    /\ pc = "idle"
    /\ op' = "Task" /\ args' = [NoArgs EXCEPT !.startKey = s, !.endKey = e]
    /\ task' = [regions |-> 0, canceled |-> FALSE, startKey |-> s, endKey |-> e]
    /\ bo' = 0
    /\ pc' = "created"
    /\ UNCHANGED <<ret, key, req, loc, startKey, keys, values, t, ctxDone, env, hist>>
    /\ UNCHANGED conc

\* The receiver Execute works on, given the caller's task: Execute has a
\* value receiver, so it is a copy.
Receiver(caller) == caller

\* The caller's task once Execute, which ended with receiver r, returned.
AfterExecute(caller, r) == caller

\* Execute is called: startKey, rangeEndKey := t.startKey, t.endKey.
Execute ==
    /\ pc = "created"
    /\ t' = Receiver(task)
    /\ startKey' = task.startKey
    /\ attempts' = 0
    /\ pc' = TaskLoopTop
    /\ UNCHANGED <<call, key, req, loc, bo, keys, values, task, ctxDone, env>>
    /\ UNCHANGED <<served, nLocate, nSend, nBackoff, lastResp>>
    /\ UNCHANGED conc

\* Execute returns e, its receiver being r.
TaskReturn(e, r) ==
    /\ Return(e, NilBytes, <<>>, <<>>)
    /\ t' = r
    /\ task' = AfterExecute(task, r)

\* The top of the loop: select on ctx.Done().
TaskCheck ==
    /\ pc = "check" /\ op = "Task"
    /\ IF ctxDone
       THEN TaskReturn(ErrNil, [t EXCEPT !.canceled = TRUE])
       ELSE pc' = "locate" /\ UNCHANGED <<ret, t, task>>
    /\ UNCHANGED <<op, args, frame, ctxDone, env, hist>>
    /\ UNCHANGED conc

\* LocateKey(t.bo, startKey), then the request up to endKey.
TaskLocate ==
    /\ pc = "locate" /\ op = "Task"
    /\ nLocate' = nLocate + 1 /\ attempts' = attempts + 1
    /\ \/ LET l == LocateKey(splits, startKey)
          IN  /\ loc' = l
              /\ req' = [NoReq EXCEPT !.Type = "DeleteRange", !.StartKey = startKey,
                                      !.EndKey = TaskEndKey(l, t.endKey)]
              /\ pc' = "send" /\ UNCHANGED <<ret, t, task>>
       \/ TaskReturn(ErrLocate, t) /\ UNCHANGED <<loc, req>>
    /\ UNCHANGED <<op, args, key, bo, startKey, keys, values, ctxDone, env>>
    /\ UNCHANGED <<served, nSend, nBackoff, lastResp>>
    /\ UNCHANGED conc

\* t.store.SendReq(t.bo, req, loc.Region, ReadTimeoutMedium): the request leaves.
TaskSend ==
    /\ pc = "send" /\ op = "Task"
    /\ nSend' = nSend + 1
    /\ \/ pc' = "wait" /\ UNCHANGED <<ret, t, task>>
       \/ TaskReturn(ErrSend, t)
    /\ UNCHANGED <<op, args, frame, ctxDone, env>>
    /\ UNCHANGED <<served, attempts, nLocate, nBackoff, lastResp>>
    /\ UNCHANGED conc

\* The response arrives: a region error is backed off on the task's Backoffer
\* and the loop continues; else the payload is checked, regions counted and
\* the cursor moved.
TaskRecv ==
    /\ pc = "wait" /\ op = "Task"
    /\ \E resp \in Responses(req, loc) :
        /\ lastResp' = resp
        /\ IF ~resp.typeOK
           THEN /\ TaskReturn(ErrInvalidType, t)
                /\ UNCHANGED <<frame, served, attempts, nBackoff>>
           ELSE IF resp.regionErr
           THEN /\ bo' = bo + 1 /\ nBackoff' = nBackoff + 1
                /\ IF BackoffExceeded(bo)
                   THEN TaskReturn(ErrBackoff, t) /\ UNCHANGED startKey
                   ELSE /\ startKey' = TaskRetryStart(startKey, loc)
                        /\ pc' = TaskLoopTop /\ UNCHANGED <<ret, t, task>>
                /\ UNCHANGED <<key, req, loc, keys, values, served, attempts>>
           ELSE IF TaskPayloadErr(resp) # ErrNil
           THEN /\ TaskReturn(TaskPayloadErr(resp), t)
                /\ UNCHANGED <<frame, served, attempts, nBackoff>>
           ELSE LET r == [t EXCEPT !.regions = t.regions + 1]
                IN  /\ served' = Append(served, [StartKey |-> req.StartKey,
                                                 EndKey |-> req.EndKey])
                    /\ IF Equal(req.EndKey, t.endKey)
                       THEN /\ TaskReturn(ErrNil, r)
                            /\ UNCHANGED <<startKey, attempts, bo>>
                       ELSE /\ startKey' = req.EndKey
                            /\ attempts' = 0
                            /\ bo' = TaskBackoffer(bo)
                            /\ t' = r
                            /\ pc' = TaskLoopTop /\ UNCHANGED <<ret, task>>
                    /\ UNCHANGED <<key, req, loc, keys, values, nBackoff>>
    /\ UNCHANGED <<op, args, ctxDone, env, nLocate, nSend>>
    /\ UNCHANGED conc

\* Regions() and IsCanceled(), called by the owner of the task.
Regions == task.regions
IsCanceled == task.canceled

----------------------------------------------------------------------------
(* The environment.                                                         *)

\* The task's context is canceled.
Cancel ==
    /\ op = "Task" /\ pc # "done" /\ ~ctxDone
    /\ ctxDone' = TRUE
    /\ UNCHANGED <<pc, call, frame, task, t, env, hist>>
    /\ UNCHANGED conc

\* Regions split or merge while a call runs.  The layout is read by LocateKey
\* only, so a change at any other moment shows as one before the next LocateKey.
TopologyChange ==
    /\ pc = "locate"
    /\ \E S \in Layouts \ {splits} : splits' = S
    /\ changed' = TRUE
    /\ UNCHANGED <<pc, call, frame, tsk, hist>>
    /\ UNCHANGED conc

----------------------------------------------------------------------------

Next ==
    \/ \E k \in Keys : CallGet(k)
    \/ \E k \in Keys, v \in Values : CallPut(k, v)
    \/ \E k \in Keys : CallDelete(k)
    \/ \E k \in Keys, n \in Limits : CallScan(k, n)
    \/ SendReqLocate
    \/ SendReqSend
    \/ SendReqRecv
    \/ \E s \in Keys, e \in Keys : CallDeleteRange(s, e)
    \/ DeleteRangeLocate
    \/ DeleteRangeSend
    \/ DeleteRangeRecv
    \/ \E s \in Keys, e \in Keys : NewDeleteRangeTask(s, e)
    \/ Execute
    \/ TaskCheck
    \/ TaskLocate
    \/ TaskSend
    \/ TaskRecv
    \/ Cancel
    \/ TopologyChange

Spec == Init /\ [][Next]_vars

\* A step of the call in progress: Execute's loop, sendReq and
\* sendDeleteRangeReq run on, every LocateKey and SendReq they call returning.
CallStep ==
    \/ SendReqLocate \/ SendReqSend \/ SendReqRecv
    \/ DeleteRangeLocate \/ DeleteRangeSend \/ DeleteRangeRecv
    \/ TaskCheck \/ TaskLocate \/ TaskSend \/ TaskRecv

\* The calls under the assumption that a call in progress is not stopped
\* forever: its goroutine is scheduled, LocateKey and SendReq answer.
LiveSpec == Spec /\ WF_vars(CallStep)


----------------------------------------------------------------------------
(* Two calls at once on one client.  A call is a frame of locals and the      *)
(* heap of Backoffers it can reach; every step is a function of that world   *)
(* and of what LocateKey or SendReq hands back.                               *)

NewBackofferId_ClientWide(live) == 1

\* The address of the Backoffer `bo := NewBackoffer(...)` creates, live being
\* the addresses other running calls hold: a new object, so none of those.
NewBackofferId(live) == CHOOSE id \in BoIds \ live : \A o \in BoIds \ live : id <= o

\* The heap once the Backoffer at address id, 0 being nil, is unreachable.
Discard(h, id) == IF id \in BoIds THEN [h EXCEPT ![id] = 0] ELSE h

\* The call of world w returns (value, keys, values, err); the Backoffer of
\* its last sendReq is garbage.
WReturn(w, e, v, ks, vs) ==
    [f |-> [w.f EXCEPT !.pc = "done", !.bo = 0,
                       !.ret = [returned |-> TRUE, err |-> e, value |-> v,
                                keys |-> ks, values |-> vs]],
     h |-> Discard(w.h, w.f.bo)]

\* What Get and Scan return when sendReq returns error e.
WReturnErr(w, e) ==
    WReturn(w, e, NilBytes, ScanErrKeys(w.f.keys), ScanErrKeys(w.f.values))

\* The call enters sendReq(k, r): bo := NewBackoffer(...).
WEnterSend(w, live, k, r) ==
    LET id == NewBackofferId(live)
    IN  [f |-> [w.f EXCEPT !.key = k, !.req = r, !.loc = NoLoc, !.bo = id,
                           !.pc = "locate"],
         h |-> [w.h EXCEPT ![id] = NewBackoffer(w.h[id])]]

\* The head of Scan's loop with cursor start and accumulator (ks, vs).
WScanLoop(w, live, start, limit, ks, vs) ==
    IF Len(ks) < limit
    THEN WEnterSend(w, live, start, ScanReq(start, limit, ks))
    ELSE WReturn(w, ErrNil, NilBytes, ks, vs)

\* Get(key)
WCallGet(w, live, k) ==
    WEnterSend([w EXCEPT !.f.op = "Get", !.f.args = [NoArgs EXCEPT !.key = k]],
               live, k, [NoReq EXCEPT !.Type = "RawGet", !.Key = k])

\* Scan(startKey, limit)
WCallScan(w, live, k, n) ==
    LET v == [w EXCEPT !.f.op = "Scan", !.f.startKey = k,
                       !.f.args = [NoArgs EXCEPT !.startKey = k, !.limit = n]]
    IN  IF LimitExceeded(n)
        THEN WReturn(v, ErrMaxScanLimitExceeded, NilBytes, <<>>, <<>>)
        ELSE WScanLoop(v, live, k, n, <<>>, <<>>)

\* What LocateKey may hand back for key k: the region of k, or an error.
LocateResults(k) ==
    {[ok |-> TRUE, loc |-> LocateKey(splits, k)], [ok |-> FALSE, loc |-> NoLoc]}

\* regionCache.LocateKey(bo, key) handed back in.
WLocate(w, in) ==
    IF in.ok THEN [w EXCEPT !.f.loc = in.loc, !.f.pc = "send"]
    ELSE WReturnErr(w, ErrLocate)

\* sender.SendReq: the request leaves, or the error is returned.
WSend(w, ok) ==
    IF ok THEN [w EXCEPT !.f.pc = "wait"] ELSE WReturnErr(w, ErrSend)

\* Scan after sendReq returned (resp, loc, nil).
WScanCont(w, live, resp) ==
    IF ~resp.body
    THEN WReturnErr(w, ErrBodyMissing)
    ELSE LET ks == AppendKeys(w.f.keys, resp.kvs)
             vs == AppendValues(w.f.values, resp.kvs)
             next == ScanNextStart(w.f.startKey, w.f.loc)
             v == [w EXCEPT !.f.keys = ks, !.f.values = vs, !.f.startKey = next]
         IN  IF Len(next) = 0
             THEN WReturn(v, ErrNil, NilBytes, ks, vs)
             ELSE WScanLoop(v, live, next, w.f.args.limit, ks, vs)

\* Get after sendReq returned (resp, loc, nil).
WPointCont(w, resp) ==
    WReturn(w, GetResult(resp).err, GetResult(resp).value, <<>>, <<>>)

\* The response arrives: GetRegionError, Backoff on the call's Backoffer on
\* a region error, or the return to Get or Scan.
WRecv(w, live, resp) ==
    IF ~resp.typeOK
    THEN WReturnErr(w, ErrInvalidType)
    ELSE IF resp.regionErr
    THEN LET b == w.h[w.f.bo]
             v == [w EXCEPT !.h[w.f.bo] = b + 1]
         IN  IF BackoffExceeded(b)
             THEN WReturnErr(v, ErrBackoff)
             ELSE [v EXCEPT !.f.pc = RetryPc]
    ELSE IF w.f.op = "Scan" THEN WScanCont(w, live, resp)
    ELSE WPointCont(w, resp)

\* Call i is between its entry and its return.
Live(i) == calls[i].pc \in {"locate", "send", "wait"}

\* The world call i runs in: its locals and the one heap.
World(i) == [f |-> calls[i], h |-> boHeap]

\* The Backoffers the calls running beside call i hold.
Held(i) == {calls[j].bo : j \in {o \in Slots \ {i} : Live(o)}}

\* Call i makes the step that leads its world to wc; alone, on the same
\* input, the step leads to wa.
ConcStep(i, wc, wa) ==
    /\ calls' = [calls EXCEPT ![i] = wc.f]
    /\ boHeap' = wc.h
    /\ alone' = [alone EXCEPT ![i] = wa]
    /\ UNCHANGED <<pc, call, frame, tsk, env, hist>>

ConcGet(i, k) ==
    /\ calls[i].pc = "idle"
    /\ ConcStep(i, WCallGet(World(i), Held(i), k), WCallGet(alone[i], {}, k))

ConcScan(i, k, n) ==
    /\ calls[i].pc = "idle"
    /\ ConcStep(i, WCallScan(World(i), Held(i), k, n),
                   WCallScan(alone[i], {}, k, n))

ConcLocate(i) ==
    /\ calls[i].pc = "locate"
    /\ \E in \in LocateResults(calls[i].key) :
        ConcStep(i, WLocate(World(i), in), WLocate(alone[i], in))

ConcSend(i) ==
    /\ calls[i].pc = "send"
    /\ \E ok \in BOOLEAN :
        ConcStep(i, WSend(World(i), ok), WSend(alone[i], ok))

ConcRecv(i) ==
    /\ calls[i].pc = "wait"
    /\ \E resp \in Responses(calls[i].req, calls[i].loc) :
        ConcStep(i, WRecv(World(i), Held(i), resp), WRecv(alone[i], {}, resp))

\* The layout the two calls meet: three regions.
ConcLayout == {<<1>>, <<2>>}

ConcInit == Init /\ splits = ConcLayout

ConcNext ==
    \E i \in Slots :
        \/ \E k \in Keys : ConcGet(i, k)
        \/ \E k \in Keys, n \in 1..MaxLimit : ConcScan(i, k, n)
        \/ ConcLocate(i)
        \/ ConcSend(i)
        \/ ConcRecv(i)

\* Two goroutines, each making one call of Get or Scan on the same client,
\* their steps interleaved in any order.
ConcSpec == ConcInit /\ [][ConcNext]_vars

----------------------------------------------------------------------------
(* Properties.                                                              *)

Less(a, b) == Compare(a, b) < 0
Leq(a, b) == Compare(a, b) <= 0

\* A response without region error whose payload is present.
Answered(r) == r.typeOK /\ ~r.regionErr /\ r.body
\* A well-formed response carrying an application-level error string.
AppError(r) == Answered(r) /\ r.error # ""

Succeeded == ret.returned /\ ret.err = ErrNil
Failed == ret.returned /\ ret.err # ErrNil

\* A call to DeleteRange with startKey < endKey.
OrderedDeleteRange == op = "DeleteRange" /\ Less(args.startKey, args.endKey)

\* The boundaries of layout S inside (s, e), between s and e, in key order.
Cuts(S, s, e) ==
    <<s>> \o SortKeys({b \in S : Less(s, b) /\ Less(b, e)}) \o <<e>>

\* [s, e) cut along layout S: one range per region that intersects it.
Intersections(S, s, e) ==
    [i \in 1..(Len(Cuts(S, s, e)) - 1) |->
        [StartKey |-> Cuts(S, s, e)[i], EndKey |-> Cuts(S, s, e)[i + 1]]]

IsPrefix(p, q) == Len(p) <= Len(q) /\ \A i \in 1..Len(p) : p[i] = q[i]

\* C1: over a layout that does not change, DeleteRange(startKey, endKey) with
\* startKey < endKey is served region by region: the served sub-requests are,
\* in order, the intersections of [startKey, endKey) with the regions; when
\* the call succeeds they are all of them and the cursor equals endKey.
C1_RangeCoverage ==
    (OrderedDeleteRange /\ ~changed) =>
        LET want == Intersections(splits, args.startKey, args.endKey)
        IN  /\ IsPrefix(served, want)
            /\ Succeeded => (served = want /\ startKey = args.endKey)

\* Witness of C1: a DeleteRange over three regions of a fixed layout succeeded.
C1_Witness ==
    /\ OrderedDeleteRange /\ ~changed /\ Succeeded
    /\ Len(served) = 3

\* C2 as claimed: when Execute stopped at a cancellation check after k >= 1
\* sub-ranges were deleted, the caller's task reports IsCanceled() = TRUE and
\* Regions() = k, and Execute returned nil.
C2_CallerSeesCancel ==
    (op = "Task" /\ ret.returned /\ t.canceled /\ Len(served) >= 1) =>
        /\ IsCanceled
        /\ Regions = Len(served)
        /\ ret.err = ErrNil

\* C3 (state part): in sendReq every send follows a LocateKey of the same
\* key made in the same attempt, and the terminal error is returned exactly
\* when the Backoffer is exhausted.
C3_AttemptLocates ==
    op \in SendReqOps =>
        /\ pc \in {"send", "wait"} => (attempts = bo + 1 /\ Contains(loc, key))
        /\ ret.err = ErrBackoff => (attempts = bo /\ bo = MaxBackoff)

\* C3 (step part): a region error below the exhaustion point leads to the
\* LocateKey of the same key; at the exhaustion point the call returns the
\* Backoffer's error.
C3_RegionErrorStep ==
    (op \in SendReqOps /\ pc = "wait" /\ pc' # "wait"
        /\ lastResp'.typeOK /\ lastResp'.regionErr) =>
        IF bo + 1 < MaxBackoff
        THEN pc' = "locate" /\ key' = key /\ ~ret'.returned
        ELSE pc' = "done" /\ ret'.err = ErrBackoff

\* Once the call has returned, it locates and sends no more.
NoMoreRequests == ret.returned => (nLocate' = nLocate /\ nSend' = nSend)

\* C3: in sendReq a region error on attempt k is followed by a fresh
\* LocateKey of the same key on attempt k + 1 while the Backoffer permits; at
\* the exhaustion point the call returns the Backoffer's terminal error and
\* locates and sends no more.
C3_RetryOnRegionMiss ==
    /\ []C3_AttemptLocates
    /\ [][C3_RegionErrorStep /\ NoMoreRequests]_vars

\* Witness of C3: a Get was retried after region errors until the Backoffer
\* was exhausted.
C3_Witness ==
    /\ op = "Get" /\ ret.err = ErrBackoff
    /\ attempts = MaxBackoff /\ nLocate = MaxBackoff /\ nSend = MaxBackoff

StrictlyIncreasing(ks) == \A i \in 1..(Len(ks) - 1) : Less(ks[i], ks[i + 1])

\* C4: a successful Scan(k, n), n >= 0, returns keys in strictly increasing
\* order, as many values as keys, and at most n pairs; the accumulator never
\* exceeds n.
C4_ScanOrdered ==
    op = "Scan" =>
        /\ Len(keys) <= args.limit
        /\ Succeeded =>
            /\ StrictlyIncreasing(ret.keys)
            /\ Len(ret.keys) <= args.limit
            /\ Len(ret.values) = Len(ret.keys)

\* Witness of C4: a Scan with limit 2 returned two pairs, the first from a
\* region before the one that served last.
C4_Witness ==
    /\ op = "Scan" /\ Succeeded /\ args.limit = 2 /\ Len(ret.keys) = 2
    /\ Less(ret.keys[1], loc.StartKey) /\ Leq(loc.StartKey, ret.keys[2])

\* C5 as claimed: within one Scan or DeleteRange the sub-requests share one
\* budget, so the Backoffer in use has counted every region error of the
\* call and the call tolerates no more region errors than one budget holds.
C5_OneBudgetPerCall ==
    op \in {"Scan", "DeleteRange"} =>
        (bo = nBackoff /\ nBackoff <= MaxBackoff)

\* C5 amended: the budget is created once per sub-request: the Backoffer in
\* use has counted the region errors of the current sub-request only, each
\* sub-request tolerating up to one budget of its own.
C5_BudgetPerSubRequest ==
    op \in {"Scan", "DeleteRange"} =>
        /\ bo <= MaxBackoff
        /\ pc = "locate" => bo = attempts
        /\ pc \in {"send", "wait"} => bo = attempts - 1

\* Witness of C5: a DeleteRange whose first sub-request was retried is at
\* its second sub-request with an unused budget.
C5_Witness ==
    /\ op = "DeleteRange" /\ Len(served) = 1 /\ pc = "wait"
    /\ nBackoff >= 1 /\ bo = 0

\* C6: a Scan that fails returns no keys and no values, whatever it had
\* accumulated; a Scan that succeeds returns the accumulator.
C6_NoPartialScan ==
    op = "Scan" =>
        /\ Failed => (ret.keys = <<>> /\ ret.values = <<>>)
        /\ Succeeded => (ret.keys = keys /\ ret.values = values)

\* Witness of C6: a Scan failed after it had accumulated pairs.
C6_Witness == op = "Scan" /\ Failed /\ Len(keys) > 0 /\ nSend >= 2

\* C7: Scan with a limit above MaxRawKVScanLimit and Put with an empty value
\* return their validation error without any LocateKey or SendReq; Scan with
\* the limit equal to MaxRawKVScanLimit is not rejected.
C7_ValidationLocal ==
    /\ (op = "Scan" /\ args.limit > MaxRawKVScanLimit) =>
        (ret.returned /\ ret.err = ErrMaxScanLimitExceeded
            /\ nLocate = 0 /\ nSend = 0)
    /\ (op = "Put" /\ Len(args.value.b) = 0) =>
        (ret.returned /\ ret.err = ErrEmptyValue /\ nLocate = 0 /\ nSend = 0)
    /\ (op = "Scan" /\ args.limit = MaxRawKVScanLimit) =>
        (ret.err # ErrMaxScanLimitExceeded /\ (ret.returned => nLocate > 0))
    /\ (op = "Put" /\ Len(args.value.b) > 0) =>
        (ret.err # ErrEmptyValue /\ (ret.returned => nLocate > 0))

\* Witness of C7: a Scan with limit MaxRawKVScanLimit + 1 was rejected.
C7_Witness ==
    /\ op = "Scan" /\ args.limit = MaxRawKVScanLimit + 1
    /\ ret.err = ErrMaxScanLimitExceeded

\* C8 (state part): in Get, Put, Delete and DeleteRange a response without
\* region error whose payload carries an error string ends the call with
\* that string as the error; a region error is returned as the Backoffer's
\* error only, and only once the Backoffer is exhausted.
C8_ErrorsSurface ==
    op \in {"Get", "Put", "Delete", "DeleteRange"} =>
        /\ AppError(lastResp) => (ret.returned /\ ret.err = lastResp.error)
        /\ ret.err = ErrBackoff => (lastResp.regionErr /\ bo = MaxBackoff)
        /\ (ret.returned /\ lastResp.typeOK /\ lastResp.regionErr) =>
            ret.err \in {ErrBackoff, ErrLocate, ErrSend}

\* C8: an application-level error string is returned as the error of Get,
\* Put, Delete and DeleteRange and the call is not retried (no LocateKey or
\* SendReq follows), whereas a region error is retried and surfaces only
\* when the Backoffer is exhausted.
C8_AppErrorNotRetried ==
    /\ []C8_ErrorsSurface
    /\ [][NoMoreRequests /\ (AppError(lastResp) => UNCHANGED <<pc, ret>>)]_vars

\* Witness of C8: a Get was retried after a region error and then returned
\* the error string of the next response.
C8_Witness ==
    /\ op = "Get" /\ nBackoff >= 1 /\ AppError(lastResp)
    /\ ret.err = lastResp.error /\ ret.err \in AppErrors

\* C9: Get returns (nil, nil) for a response whose value is empty and whose
\* error string is empty, and a non-nil error for a response with an error
\* string or without body.
C9_GetMiss ==
    (op = "Get" /\ ret.returned /\ lastResp.typeOK /\ ~lastResp.regionErr) =>
        /\ (lastResp.body /\ lastResp.error = "" /\ Len(lastResp.value.b) = 0) =>
            (ret.value.nil /\ ret.err = ErrNil)
        /\ (AppError(lastResp) \/ ~lastResp.body) =>
            (ret.value.nil /\ ret.err # ErrNil)

\* Witness of C9: Get returned (nil, nil) for a response whose value is an
\* empty, non-nil slice.
C9_Witness ==
    /\ op = "Get" /\ Succeeded /\ Answered(lastResp)
    /\ lastResp.value = Slice(<<>>) /\ ret.value = NilBytes

\* C10: whatever the layout does meanwhile and whatever region errors are
\* retried, the sub-requests DeleteRange(startKey, endKey), startKey < endKey,
\* had served are non-empty and contiguous from startKey, stay below endKey
\* and end at endKey when the call succeeds; each attempt sends from the
\* cursor to a region located for the cursor.
C10_ContiguousUnderChange ==
    OrderedDeleteRange =>
        /\ \A i \in 1..Len(served) :
            /\ Less(served[i].StartKey, served[i].EndKey)
            /\ Leq(served[i].EndKey, args.endKey)
            /\ served[i].StartKey =
                (IF i = 1 THEN args.startKey ELSE served[i - 1].EndKey)
        /\ startKey =
            (IF served = <<>> THEN args.startKey ELSE served[Len(served)].EndKey)
        /\ Succeeded => startKey = args.endKey
        /\ pc \in {"send", "wait"} =>
            /\ key = startKey /\ req.StartKey = startKey
            /\ Contains(loc, startKey)
            /\ attempts = bo + 1

\* Witness of C10: a DeleteRange succeeded in three sub-requests after a
\* region error and a change of layout, the layout now having no boundary
\* inside the range.
C10_Witness ==
    /\ OrderedDeleteRange /\ Succeeded /\ changed /\ nBackoff >= 1
    /\ Len(served) = 3
    /\ Len(Intersections(splits, args.startKey, args.endKey)) = 1

\* Sub-request r covers key k: r.StartKey <= k < r.EndKey, an empty EndKey
\* unbounded.
Covers(r, k) == Leq(r.StartKey, k) /\ (Len(r.EndKey) = 0 \/ Less(k, r.EndKey))

\* The sub-requests the call has issued: those served and the one on its way.
Issued ==
    {served[i] : i \in 1..Len(served)}
    \cup (IF pc \in {"send", "wait"}
          THEN {[StartKey |-> req.StartKey, EndKey |-> req.EndKey]}
          ELSE {})

\* C11 as claimed: for every task (startKey, endKey) the cursor never is
\* below startKey and no sub-request of the task covers a key outside
\* [startKey, endKey) (an empty endKey taken as unbounded).
C11_TaskStaysInRange ==
    (op = "Task" /\ pc \notin {"idle", "created"}) =>
        /\ Leq(task.startKey, startKey)
        /\ \A r \in Issued : \A k \in Keys :
            Covers(r, k) => Covers([StartKey |-> task.startKey,
                                    EndKey |-> task.endKey], k)

\* C12 as claimed: the end the task chooses for a sub-request to the located
\* region equals the end sendDeleteRangeReq computes for the same endKey and
\* region: the smaller of endKey and the region's end, an empty region end
\* unbounded.
C12_SameClampAsDeleteRange ==
    (op = "Task" /\ pc \in {"send", "wait"}) =>
        /\ Contains(loc, startKey)
        /\ req.EndKey = ActualEndKey(t.endKey, loc.EndKey)

\* C13 as claimed: every sub-request of DeleteRange lies inside the region it
\* was located for and is sent to: it starts in the region and ends at or
\* before the region's end, unless that end is unbounded.
C13_ShardAligned ==
    (op = "DeleteRange" /\ pc \in {"send", "wait"}) =>
        /\ Contains(loc, req.StartKey)
        /\ \/ Len(loc.EndKey) = 0
           \/ Len(req.EndKey) > 0 /\ Leq(req.EndKey, loc.EndKey)

\* The task is inside Execute's loop.
InTask == op = "Task" /\ pc \in {"check", "locate", "send", "wait"}

\* The task locates, sends or backs off in this step.
TaskActs == nLocate' # nLocate \/ nSend' # nSend \/ nBackoff' # nBackoff

\* C14 (state part): a task marked canceled has returned nil, its context
\* being done.
C14_CanceledReturnsNil ==
    (op = "Task" /\ t.canceled) => (ctxDone /\ ret.returned /\ ret.err = ErrNil)

\* C14 (step part): an iteration, the one after a region error included,
\* reaches LocateKey only through a check that saw the context not done; a
\* check that sees it done returns nil with canceled set and without
\* locating, sending or backing off; a context done while the sub-request is
\* located, sent or awaited changes nothing of the iteration, which goes on
\* to the next check or to its own return.
C14_CheckStep ==
    /\ (InTask /\ pc' = "locate" /\ pc # "locate") => (pc = "check" /\ ~ctxDone)
    /\ (InTask /\ pc = "wait" /\ pc' # "wait" /\ ~ret'.returned) => pc' = "check"
    /\ (InTask /\ pc = "check" /\ ctxDone /\ pc' # "check") =>
            /\ ret'.returned /\ ret'.err = ErrNil /\ t'.canceled
            /\ ~TaskActs
    /\ (InTask /\ pc # "check") => ~t'.canceled
    /\ (InTask /\ ctxDone' # ctxDone) => UNCHANGED <<pc, call, frame, t, hist>>
    /\ (op = "Task" /\ ret.returned) => ~TaskActs

\* C14: Execute tests ctx.Done() at the top of every iteration, the one
\* entered after a region error included; once a test finds it done Execute
\* returns nil and locates, sends and backs off no more; a context done
\* while a sub-request is in flight takes effect at the next test only.
C14_CancelAtLoopTop == []C14_CanceledReturnsNil /\ [][C14_CheckStep]_vars

\* Witness of C14: the task was canceled at the check of the iteration that
\* was to retry after a region error, one sub-range having been deleted.
C14_Witness ==
    /\ op = "Task" /\ ret.returned /\ t.canceled
    /\ lastResp.typeOK /\ lastResp.regionErr /\ nBackoff >= 1
    /\ Len(served) >= 1

\* C15: all the region errors of one Execute are backed off on one Backoffer:
\* the Backoff calls made on the task's Backoffer are those of all sub-ranges
\* so far, a move of the cursor restoring none, so they never exceed the one
\* budget; Execute returns the Backoffer's error exactly when that budget is
\* used up, however few of the errors came from the current region.
C15_OneBudgetPerTask ==
    op = "Task" =>
        /\ bo = nBackoff
        /\ nBackoff <= MaxBackoff
        /\ ret.err = ErrBackoff <=> (ret.returned /\ nBackoff = MaxBackoff)

\* Witness of C15: Execute returned the Backoffer's error on the first region
\* error of the current region, earlier sub-ranges having used the rest of
\* the budget.
C15_Witness ==
    /\ op = "Task" /\ ret.err = ErrBackoff
    /\ Len(served) >= 1 /\ attempts = 1
    /\ nBackoff = MaxBackoff

\* C16 (state part): the receiver counts the sub-requests served without
\* region error, missing body or error string, and every sub-request starts
\* at the cursor, in the region located for the cursor.
C16_CountsServed ==
    op = "Task" =>
        /\ t.regions = Len(served)
        /\ pc \in {"send", "wait"} =>
            (req.StartKey = startKey /\ Contains(loc, startKey))

\* C16 (step part): a response with a region error leaves the cursor and the
\* count as they were and, the Backoffer permitting, leads to the top of the
\* loop, where the same cursor is located again; the count grows, by one,
\* only when a response without region error, with its body and with an
\* empty error string arrives.
C16_RegionErrorFrame ==
    /\ (InTask /\ pc = "wait" /\ pc' # "wait"
            /\ lastResp'.typeOK /\ lastResp'.regionErr) =>
            /\ startKey' = startKey
            /\ t'.regions = t.regions
            /\ served' = served
            /\ ~ret'.returned => pc' = "check"
    /\ (op = "Task" /\ t'.regions # t.regions) =>
            /\ pc = "wait"
            /\ t'.regions = t.regions + 1
            /\ Answered(lastResp') /\ lastResp'.error = ""

\* C16: in the task a region error changes neither the cursor nor the number
\* of regions affected; the retry locates the same cursor and sends a
\* sub-request with the same start; only a sub-request served without region
\* error, missing body or error string is counted.
C16_RetryKeepsCursor == []C16_CountsServed /\ [][C16_RegionErrorFrame]_vars

\* Witness of C16: after one sub-range was deleted, the next sub-request is
\* in flight for the second time, its first attempt having met a region error.
C16_Witness ==
    /\ op = "Task" /\ pc = "wait" /\ attempts = 2
    /\ nBackoff = 1 /\ lastResp.regionErr
    /\ t.regions = 1 /\ Len(startKey) > 0

\* The task's Backoffer is left alone in this step.
BudgetKept == bo' = bo /\ nBackoff' = nBackoff

\* C17 (step part): LocateKey either yields a region or makes Execute return
\* its error; SendReq either hands the request over or makes Execute return
\* its error; a response without region error and without body makes Execute
\* return ErrBodyMissing; each of these returns happens in the step of the
\* failure, with no Backoff call and no change of the count, and nothing is
\* located, sent or backed off after it.
C17_FailStep ==
    /\ (InTask /\ pc = "locate" /\ pc' \notin {"locate", "send"}) =>
            /\ ret'.returned /\ ret'.err = ErrLocate
            /\ BudgetKept /\ nSend' = nSend /\ t' = t
    /\ (InTask /\ pc = "send" /\ pc' \notin {"send", "wait"}) =>
            /\ ret'.returned /\ ret'.err = ErrSend
            /\ BudgetKept /\ nLocate' = nLocate /\ t' = t
    /\ (InTask /\ pc = "wait" /\ pc' # "wait"
            /\ lastResp'.typeOK /\ ~lastResp'.regionErr /\ ~lastResp'.body) =>
            /\ ret'.returned /\ ret'.err = ErrBodyMissing
            /\ BudgetKept /\ nLocate' = nLocate /\ nSend' = nSend /\ t' = t
    /\ (op = "Task" /\ ret.returned) => (~TaskActs /\ ret' = ret)

\* C17 (state part): these errors are not nil, and once one of them is the
\* result Execute is over.
C17_FailIsFinal ==
    (op = "Task" /\ ret.err \in {ErrLocate, ErrSend, ErrBodyMissing}) =>
        (ret.returned /\ ret.err # ErrNil /\ pc = "done")

\* C17: in the task a failed LocateKey, a failed SendReq and a response
\* without body make Execute return a non-nil error at once: no Backoff, no
\* further LocateKey, no further SendReq, nothing taken from the Backoffer.
C17_FailFast == []C17_FailIsFinal /\ [][C17_FailStep]_vars

\* Witness of C17: Execute returned ErrBodyMissing for its second sub-range,
\* after a region error had been backed off.
C17_Witness ==
    /\ op = "Task" /\ ret.err = ErrBodyMissing
    /\ Len(served) = 1 /\ bo = 1 /\ nBackoff = 1

\* The calls made of sub-operations over successive regions.
RangeOps == {"Scan", "DeleteRange"}

\* The call is between its first sub-request and its return.
InRangeCall == op \in RangeOps /\ pc \in {"locate", "send", "wait"}

\* C18 (step part): the start key of the sub-operation changes only to a
\* greater key; a sub-operation begins only when the response to the
\* previous one has arrived, and then with a greater start key, while a
\* retry keeps the start key; a request leaves only from the send step,
\* after which the call waits for its response.
C18_InOrderStep ==
    /\ (InRangeCall /\ key' # key) => Less(key, key')
    /\ (InRangeCall /\ pc # "locate" /\ attempts' = 0 /\ pc' = "locate") =>
            (pc = "wait" /\ Less(key, key') /\ Answered(lastResp'))
    /\ (InRangeCall /\ pc = "wait" /\ pc' = "locate" /\ attempts' # 0) =>
            (key' = key /\ lastResp'.regionErr)
    /\ (op \in RangeOps /\ nSend' # nSend) =>
            (pc = "send" /\ nSend' = nSend + 1 /\ pc' \in {"wait", "done"})
    /\ (InRangeCall /\ pc = "wait") => nSend' = nSend

\* C18 (state part): the sub-request under way starts at the call's cursor,
\* which is not below the key the call started from.
C18_AtCursor ==
    InRangeCall =>
        /\ key = startKey
        /\ Leq(args.startKey, key)

\* C18: in one Scan or DeleteRange call the sub-operations are issued in
\* strictly increasing order of their start keys, the retries of one
\* sub-operation keeping its start key, and one at a time: the next request
\* leaves only after the response to the previous one arrived.
C18_SequentialInKeyOrder == []C18_AtCursor /\ [][C18_InOrderStep]_vars

\* Witness of C18: a Scan that has gathered a pair is retrying the
\* sub-operation of a later region, its request in flight again.
C18_Witness ==
    /\ op = "Scan" /\ pc = "wait" /\ attempts = 2
    /\ Less(args.startKey, key) /\ Len(keys) >= 1

\* A call is running: entered and not yet returned.
Running == pc \in {"check", "locate", "send", "wait"}

\* C19 (state part): why a call that returned nil stopped.  Scan: the
\* accumulator reached limit or the cursor, the end of the region served
\* last, is empty.  DeleteRange: the cursor equals endKey.  Execute: the
\* context was done at a check, or the sub-request served last ended at
\* endKey; any other return is an error.
C19_ExitCondition ==
    /\ ret.returned => (pc = "done" /\ ~Running)
    /\ (op = "Scan" /\ Succeeded) =>
            (Len(ret.keys) >= args.limit \/ Len(startKey) = 0)
    /\ (op = "DeleteRange" /\ Succeeded) => Equal(startKey, args.endKey)
    /\ (op = "Task" /\ Succeeded) =>
            \/ t.canceled
            \/ Len(served) >= 1 /\ Equal(served[Len(served)].EndKey, t.endKey)

\* C19: every call that was entered returns, whatever its arguments, the
\* layout and the region errors it meets, provided its steps go on, the
\* Backoffer being finite; a nil return of Scan, DeleteRange and Execute
\* comes with the exit condition of its loop.
C19_Terminates == []C19_ExitCondition /\ (Running ~> ret.returned)

\* Witness of C19: a DeleteRange over several regions returned nil at the
\* cursor equal to endKey, having met a region error and a changed layout.
C19_Witness ==
    /\ op = "DeleteRange" /\ Succeeded /\ Equal(startKey, args.endKey)
    /\ Len(served) >= 2 /\ nBackoff >= 1 /\ changed

\* The Backoff calls made so far on the Backoffer of frame f in heap h.
Budget(f, h) == IF f.bo \in BoIds THEN h[f.bo] ELSE 0

\* C20 (state part): each of two concurrent calls is where it would be had
\* it run alone on the same LocateKey results and responses: same place,
\* request, location, cursor, accumulators and result, as many Backoff calls
\* on its Backoffer; and two running calls never hold the same Backoffer.
C20_AsAlone ==
    \A i \in Slots :
        /\ [calls[i] EXCEPT !.bo = 0] = [alone[i].f EXCEPT !.bo = 0]
        /\ Budget(calls[i], boHeap) = Budget(alone[i].f, alone[i].h)
        /\ \A j \in Slots \ {i} :
            (Live(i) /\ Live(j)) => calls[i].bo # calls[j].bo

\* C20 (step part): a step of one call, the arrival of a region error
\* included, changes nothing of the other call: not its locals, cursor and
\* accumulators among them, and not the Backoff calls made on its Backoffer.
C20_Frame ==
    \A i \in Slots :
        calls'[i].pc = calls[i].pc =>
            /\ calls'[i] = calls[i]
            /\ alone'[i] = alone[i]
            /\ Budget(calls[i], boHeap') = Budget(calls[i], boHeap)

============================================================================
